---- MODULE Spec2Model ----
(***************************************************************************)
(* Model of plagiarism_checker/reporting.py: the tabular exporters         *)
(* (write_summary_csv, write_paragraph_summary), the detail exporters      *)
(* (write_pair_results, write_evidence_top) and the narrative report       *)
(* builder (write_word_report), acting on one destination path of a        *)
(* filesystem.                                                             *)
(*                                                                         *)
(* Floats are integers in units of 10^-6 (0.7 is 700000).  Text is a       *)
(* sequence of string fragments, so that string formatting is a visible    *)
(* conversion.  A python dict is a function from keys to values.           *)
(***************************************************************************)
EXTENDS Integers, Sequences, FiniteSets, TLC

\* dirs: the directories that exist; file: the content at the destination;
\* call: the exporter called last, with its arguments; outcome: how it ended
VARIABLES dirs, file, call, outcome

vars == <<dirs, file, call, outcome>>

----------------------------------------------------------------------------
(* Bounds of the model. *)

MaxStats == 2
MaxDetails == 2

----------------------------------------------------------------------------
(* Generic helpers. *)

Range(s) == {s[i] : i \in DOMAIN s}

SeqsUpTo(S, n) == UNION {[1..k -> S] : k \in 0..n}

Min(a, b) == IF a <= b THEN a ELSE b

Max(a, b) == IF a >= b THEN a ELSE b

RECURSIVE SumSeq(_)
SumSeq(s) == IF s = <<>> THEN 0 ELSE s[1] + SumSeq(Tail(s))

\* dict(item) without key k
Without(r, k) == [x \in DOMAIN r \ {k} |-> r[x]]

\* dict(item) with key k set to v
With(r, k, v) == (k :> v) @@ r

\* dict.get(key, default)
Get(r, k, default) == IF k \in DOMAIN r THEN r[k] ELSE default

----------------------------------------------------------------------------
(* Module-level names (reporting.py lines 5-37, 101-102). *)

SUMMARY_HEADER ==
    << "pair", "count", "mean_sim", "max_sim", "coverage_min", "coverage_a",
       "coverage_b", "student_a_sent_total", "student_b_sent_total", "score" >>

PARA_SUMMARY_HEADER ==
    << "pair", "count", "mean_sim", "max_sim", "coverage_min", "coverage_a",
       "coverage_b", "student_a_para_total", "student_b_para_total", "score" >>

\* every name the module binds at import time; function bodies resolve
\* their free names here at call time
ModuleGlobals ==
    { "annotations", "csv", "json", "Path", "Iterable", "List",
      "SUMMARY_HEADER", "PARA_SUMMARY_HEADER",
      "write_summary_csv", "write_paragraph_summary", "write_pair_results",
      "write_evidence_top", "Document", "Pt", "write_word_report" }

----------------------------------------------------------------------------
(* The filesystem: a path is the sequence of its components, dirs is the   *)
(* set of existing directories, file is the content at the destination.    *)

NoFile == [absent |-> TRUE]

Parent(p) == SubSeq(p, 1, Len(p) - 1)

\* Path.mkdir(parents=True, exist_ok=True)
MkdirParents(d, ds) == ds \cup {SubSeq(d, 1, k) : k \in 0..Len(d)}

\* open(path, "w") and Path.write_text succeed iff the parent directory exists
CanCreate(p, ds) == Parent(p) \in ds

\* the destination every call writes to
DestPath == <<"out", "new", "report">>

\* the destination's parent directory may or may not exist at the start
InitDirs == { {<<>>, <<"out">>}, {<<>>, <<"out">>, <<"out", "new">>} }

----------------------------------------------------------------------------
(* Tabular exporters. *)

\* a variant that renders the pair in the other order
FormatPairSwapped(pair) == << "(", pair[2], ", ", pair[1], ")" >>

\* f"({a}, {b})"
FormatPair(pair) == << "(", pair[1], ", ", pair[2], ")" >>

\* lines 43-47: row = dict(item); row["pair"] = f"({a}, {b})"
BuildRow(item) ==
    [k \in DOMAIN item |->
        IF k = "pair" THEN [text |-> FormatPair(item["pair"])]
                      ELSE [value |-> item[k]]]

\* item["pair"] raises KeyError on the first record without the key
HasPair(item) == "pair" \in DOMAIN item

BuildRows(ss) == [i \in DOMAIN ss |-> BuildRow(ss[i])]

\* csv.DictWriter default restval
Restval == [text |-> <<>>]

\* csv.DictWriter._dict_to_list with extrasaction="raise"
WrongFields(row, header) == DOMAIN row \ Range(header)

DictToList(row, header) ==
    [i \in DOMAIN header |-> Get(row, header[i], Restval)]

\* csv.DictWriter.writeheader
HeaderRow(header) == [i \in DOMAIN header |-> [text |-> <<header[i]>>]]

\* index of the first row writerows rejects, Len + 1 when there is none
FirstBad(rows, header) ==
    LET bad == {i \in DOMAIN rows : WrongFields(rows[i], header) # {}}
    IN  IF bad = {} THEN Len(rows) + 1
        ELSE CHOOSE i \in bad : \A j \in bad : i <= j

\* a variant that converts every row before it writes the first one, so
\* that a rejected row leaves the header alone in the file
WrittenRowsEager(rows, header) ==
    IF FirstBad(rows, header) <= Len(rows) THEN <<HeaderRow(header)>>
    ELSE <<HeaderRow(header)>> \o
            [i \in DOMAIN rows |-> DictToList(rows[i], header)]

\* what is in the file when the with-block is left: the header, then the
\* rows written before writerows raised (all of them when it did not)
WrittenRows(rows, header) ==
    LET k == FirstBad(rows, header)
    IN  <<HeaderRow(header)>> \o
            [i \in 1..(k - 1) |-> DictToList(rows[i], header)]

TableOutcome(ss, header, p, ds) ==
    IF \E i \in DOMAIN ss : ~HasPair(ss[i]) THEN "KeyError"
    ELSE IF ~CanCreate(p, ds) THEN "FileNotFoundError"
    ELSE IF FirstBad(BuildRows(ss), header) <= Len(ss) THEN "ValueError"
    ELSE "ok"

\* a variant that opens the destination for appending
TableFileAppend(ss, header, result, old) ==
    IF result \in {"ok", "ValueError"}
    THEN [rows |-> (IF "rows" \in DOMAIN old THEN old.rows ELSE <<>>)
                      \o WrittenRows(BuildRows(ss), header)]
    ELSE old

\* open(path, "w") truncates: a call that got as far as opening the
\* destination (result is how the call ended) replaces the old content
TableFile(ss, header, result, old) ==
    IF result \in {"ok", "ValueError"}
    THEN [rows |-> WrittenRows(BuildRows(ss), header)]
    ELSE old

----------------------------------------------------------------------------
(* Detail exporters. *)

\* json.dumps(payload, ensure_ascii=False, indent=2) of {"pairs": details};
\* the file is the JSON document, a tuple being written as a JSON array
PairResultsFile(dd) == [json |-> [pairs |-> dd]]

\* str(tuple(pair)): the elements are rendered with repr
PairKey(pair) == << "(", "'", pair[1], "'", ", ", "'", pair[2], "'", ")" >>

\* detail["pair"] and detail["hits"] raise KeyError when the key is absent
HasEvidence(detail) == {"pair", "hits"} \subseteq DOMAIN detail

\* a variant that keeps the first record of a pair instead of the last
EvidenceMapFirst(dd) ==
    LET keys == {PairKey(dd[i]["pair"]) : i \in DOMAIN dd}
        first(k) == CHOOSE i \in DOMAIN dd :
                      /\ PairKey(dd[i]["pair"]) = k
                      /\ \A j \in DOMAIN dd : PairKey(dd[j]["pair"]) = k => i <= j
    IN  [k \in keys |-> dd[first(k)]["hits"]]

\* the dict comprehension of lines 80-83: a later record with the same key
\* replaces the value of an earlier one
EvidenceMap(dd) ==
    LET keys == {PairKey(dd[i]["pair"]) : i \in DOMAIN dd}
        last(k) == CHOOSE i \in DOMAIN dd :
                      /\ PairKey(dd[i]["pair"]) = k
                      /\ \A j \in DOMAIN dd : PairKey(dd[j]["pair"]) = k => j <= i
    IN  [k \in keys |-> dd[last(k)]["hits"]]

EvidenceFile(dd) == [json |-> EvidenceMap(dd)]

PairResultsOutcome(dd, p, ds) ==
    IF ~CanCreate(p, ds) THEN "FileNotFoundError" ELSE "ok"

EvidenceOutcome(dd, p, ds) ==
    IF \E i \in DOMAIN dd : ~HasEvidence(dd[i]) THEN "KeyError"
    ELSE IF ~CanCreate(p, ds) THEN "FileNotFoundError"
    ELSE "ok"

----------------------------------------------------------------------------
(* Narrative report builder. *)

HighThreshold == 700000

MediumThreshold == 500000

DefaultTopN == 5

\* f"{x:.3f}" and f"{x:.1%}": both keep three decimals of the float
Round3(v) == (v + 500) \div 1000

\* lines 125-130
RiskBreakdown(ss) ==
    LET total_pairs == Len(ss)
        high_risk == Cardinality({i \in DOMAIN ss :
                        Get(ss[i], "score", 0) >= HighThreshold})
        medium_risk == Cardinality({i \in DOMAIN ss :
                        /\ MediumThreshold <= Get(ss[i], "score", 0)
                        /\ Get(ss[i], "score", 0) < HighThreshold})
    IN  [High |-> high_risk, Medium |-> medium_risk,
         Low |-> total_pairs - high_risk - medium_risk]

\* lines 125-127
OverallSummary(ss) ==
    LET total_pairs == Len(ss)
    IN  [total_pairs |-> total_pairs,
         total_matches |-> SumSeq([i \in DOMAIN ss |-> Get(ss[i], "count", 0)]),
         avg_pair_sim |->
            IF total_pairs # 0
            THEN Round3(SumSeq([i \in DOMAIN ss |-> Get(ss[i], "mean_sim", 0)])
                          \div total_pairs)
            ELSE 0]

\* lines 144-150
TableRow(item) ==
    LET pair == Get(item, "pair", <<"", "">>)
    IN  << <<pair[1], " <-> ", pair[2]>>, Get(item, "count", 0),
           Round3(Get(item, "mean_sim", 0)), Round3(Get(item, "score", 0)) >>

\* hits[:n]
Slice(hits, n) ==
    IF n >= 0 THEN SubSeq(hits, 1, Min(n, Len(hits)))
    ELSE SubSeq(hits, 1, Max(Len(hits) + n, 0))

Whitespace == {" ", "\n", "\t"}

\* text.replace('\n', ' ').strip()
CleanText(t) ==
    LET flat == [i \in DOMAIN t |-> IF t[i] = "\n" THEN " " ELSE t[i]]
        keep == {i \in DOMAIN flat : flat[i] \notin Whitespace}
    IN  IF keep = {} THEN <<>>
        ELSE SubSeq(flat, CHOOSE i \in keep : \A j \in keep : i <= j,
                          CHOOSE i \in keep : \A j \in keep : j <= i)

\* lines 167-181
RenderHit(hit) ==
    [similarity |-> Round3(Get(hit, "adjusted_sim", Get(hit, "sim", 0))),
     citation |-> Get(hit, "citation_penalty", 1000000) < 1000000,
     left |-> <<Get(hit, "sid_i", ""), Get(hit, "sent_id_i", ""),
                CleanText(Get(hit, "text_i", <<>>))>>,
     right |-> <<Get(hit, "sid_j", ""), Get(hit, "sent_id_j", ""),
                 CleanText(Get(hit, "text_j", <<>>))>>]

\* lines 158-184
RenderDetail(detail, n) ==
    LET pair == Get(detail, "pair", <<"?", "?">>)
        hits == Slice(Get(detail, "hits", <<>>), n)
    IN  [heading |-> <<pair[1], " <-> ", pair[2]>>,
         matches |-> Get(detail, "count", 0),
         avg_sim |-> Round3(Get(detail, "mean_sim", 0)),
         score |-> Round3(Get(detail, "score", 0)),
         hits |-> [i \in DOMAIN hits |-> RenderHit(hits[i])]]

\* the document of lines 112-184
Report(ss, dd, n, styled, now) ==
    [styled |-> styled,
     generated |-> now,
     summary |-> OverallSummary(ss),
     risk |-> RiskBreakdown(ss),
     table |-> [i \in DOMAIN ss |-> TableRow(ss[i])],
     sections |-> [i \in DOMAIN dd |-> RenderDetail(dd[i], n)]]

\* line 121 evaluates datetime.datetime.now(): the name is looked up in the
\* module globals when the call runs
TimestampOutcome == IF "datetime" \in ModuleGlobals THEN "ok" ELSE "NameError"

----------------------------------------------------------------------------
(* Inputs: the records the callers pass. *)

\* the argument lists of a call: up to n well-formed records, or up to n - 1
\* of them followed by a record that lacks the key the exporter subscripts
InputsUpTo(good, bad, n) ==
    SeqsUpTo(good, n) \cup {Append(s, bad) : s \in SeqsUpTo(good, n - 1)}

SentStats(pair, score) ==
    [pair |-> pair, count |-> 3, mean_sim |-> 620000, max_sim |-> 900000,
     coverage_min |-> 100000, coverage_a |-> 200000, coverage_b |-> 300000,
     student_a_sent_total |-> 10, student_b_sent_total |-> 12, score |-> score]

ParaStats(pair, score) ==
    [pair |-> pair, count |-> 3, mean_sim |-> 620000, max_sim |-> 900000,
     coverage_min |-> 100000, coverage_a |-> 200000, coverage_b |-> 300000,
     student_a_para_total |-> 4, student_b_para_total |-> 5, score |-> score]

\* records for a tabular exporter: exact keys in both pair orders, a
\* missing column, an extra key
Variants(ab, ba, column) == { ab, ba, Without(ab, column), With(ba, "note", 1) }

SentPool ==
    Variants(SentStats(<<"A", "B">>, 550000), SentStats(<<"B", "A">>, 720000),
             "score")

ParaPool ==
    Variants(ParaStats(<<"A", "B">>, 550000), ParaStats(<<"B", "A">>, 720000),
             "student_a_para_total")

SentInputs ==
    InputsUpTo(SentPool, Without(SentStats(<<"A", "B">>, 550000), "pair"),
               MaxStats)

ParaInputs ==
    InputsUpTo(ParaPool, Without(ParaStats(<<"A", "B">>, 550000), "pair"),
               MaxStats)

Hit(sim) ==
    [sid_i |-> "A", sid_j |-> "B", sent_id_i |-> 0, sent_id_j |-> 1,
     text_i |-> <<" ", "x", "\n", "y">>, text_j |-> <<"z", "\n">>, sim |-> sim]

AdjustedHit ==
    With(With(Hit(900000), "adjusted_sim", 600000), "citation_penalty", 750000)

Detail(pair, hits) ==
    [pair |-> pair, count |-> Len(hits), mean_sim |-> 620000, score |-> 550000,
     hits |-> hits]

\* detail records: the same pair with two hits lists, the pair in the other
\* order
DetailPool ==
    { Detail(<<"A", "B">>, <<>>), Detail(<<"A", "B">>, <<Hit(800000)>>),
      Detail(<<"B", "A">>, <<AdjustedHit>>) }

DetailInputs ==
    InputsUpTo(DetailPool, Without(Detail(<<"A", "B">>, <<>>), "hits"),
               MaxDetails)

\* arguments of a report call: scores at and around the two thresholds and
\* a record without a score; a detail record with more hits than top_n
Boundary(score) == SentStats(<<"A", "B">>, score)

ReportStatsInputs ==
    { <<>>,
      <<Boundary(700000)>>,
      <<Boundary(700000), Boundary(699999), Boundary(500000),
        Boundary(499999), Without(Boundary(550000), "score")>> }

ReportDetailInputs ==
    { <<>>,
      <<Detail(<<"B", "A">>, <<Hit(800000), AdjustedHit, Hit(700000)>>),
        Without(Detail(<<"A", "B">>, <<>>), "hits")>> }

TopNInputs == {-1, 2, DefaultTopN}

Timestamps == {"t1", "t2"}

----------------------------------------------------------------------------
(* State machine: one exporter call per step. *)

Init ==
    /\ dirs \in InitDirs
    /\ file = NoFile
    /\ call = [op |-> "none"]
    /\ outcome = "none"

write_summary_csv ==
    \E ss \in SentInputs :
        /\ call' = [op |-> "write_summary_csv", stats |-> ss]
        /\ LET result == TableOutcome(ss, SUMMARY_HEADER, DestPath, dirs)
           IN  /\ outcome' = result
               /\ file' = TableFile(ss, SUMMARY_HEADER, result, file)
        /\ UNCHANGED dirs

write_paragraph_summary ==
    \E ss \in ParaInputs :
        /\ call' = [op |-> "write_paragraph_summary", stats |-> ss]
        /\ LET result == TableOutcome(ss, PARA_SUMMARY_HEADER, DestPath, dirs)
           IN  /\ outcome' = result
               /\ file' = TableFile(ss, PARA_SUMMARY_HEADER, result, file)
        /\ UNCHANGED dirs

write_pair_results ==
    \E dd \in DetailInputs :
        /\ call' = [op |-> "write_pair_results", details |-> dd]
        /\ LET result == PairResultsOutcome(dd, DestPath, dirs)
           IN  /\ outcome' = result
               /\ file' = IF result = "ok" THEN PairResultsFile(dd) ELSE file
        /\ UNCHANGED dirs

write_evidence_top ==
    \E dd \in DetailInputs :
        /\ call' = [op |-> "write_evidence_top", details |-> dd]
        /\ LET result == EvidenceOutcome(dd, DestPath, dirs)
           IN  /\ outcome' = result
               /\ file' = IF result = "ok" THEN EvidenceFile(dd) ELSE file
        /\ UNCHANGED dirs

write_word_report ==
    \E ss \in ReportStatsInputs, dd \in ReportDetailInputs, n \in TopNInputs :
        /\ call' = [op |-> "write_word_report", stats |-> ss, details |-> dd,
                    top_n |-> n]
        /\ dirs' = MkdirParents(Parent(DestPath), dirs)
        /\ outcome' = TimestampOutcome
        /\ IF TimestampOutcome = "ok"
           THEN \E styled \in BOOLEAN, now \in Timestamps :
                    file' = [doc |-> Report(ss, dd, n, styled, now)]
           ELSE file' = file

Next ==
    \/ write_summary_csv
    \/ write_paragraph_summary
    \/ write_pair_results
    \/ write_evidence_top
    \/ write_word_report

Spec == Init /\ [][Next]_vars

----------------------------------------------------------------------------
(* Vocabulary of the properties. *)

IsTabular == call.op \in {"write_summary_csv", "write_paragraph_summary"}

IsDetail == call.op \in {"write_pair_results", "write_evidence_top"}

IsReport == call.op = "write_word_report"

\* the fixed column list of the tabular exporter called last
Columns ==
    IF call.op = "write_summary_csv" THEN SUMMARY_HEADER ELSE PARA_SUMMARY_HEADER

ParentExists == Parent(DestPath) \in dirs

\* the header line of a table
ExpectedHeader(cols) == [c \in DOMAIN cols |-> [text |-> <<cols[c]>>]]

\* the line of a record: "(A, B)" in the pair column, the record's value in
\* a column it has, the empty string in a column it lacks
ExpectedLine(item, cols) ==
    [c \in DOMAIN cols |->
        IF cols[c] \notin DOMAIN item THEN [text |-> <<>>]
        ELSE IF cols[c] = "pair"
             THEN [text |-> <<"(", item.pair[1], ", ", item.pair[2], ")">>]
             ELSE [value |-> item[cols[c]]]]

\* the first record that carries a key outside the column list, 0 if none
FirstRejected(ss, cols) ==
    LET bad == {i \in DOMAIN ss : ~(DOMAIN ss[i] \subseteq Range(cols))}
    IN  IF bad = {} THEN 0 ELSE CHOOSE i \in bad : \A j \in bad : i <= j

\* the canonical key of a pair: ('A', 'B')
ExpectedKey(pair) == <<"(", "'", pair[1], "'", ", ", "'", pair[2], "'", ")">>

----------------------------------------------------------------------------
(* Tabular exporters. *)

\* C1: for a non-empty stats whose records have exactly the fixed columns,
\* a tabular export (the destination's directory existing) succeeds and
\* leaves len(stats)+1 lines: the fixed column list first, then line k for
\* record k, in input order, its pair column "(A, B)" in the given order.
C1_RowsMatchRecords ==
    ( /\ IsTabular
      /\ call.stats # <<>>
      /\ \A i \in DOMAIN call.stats : DOMAIN call.stats[i] = Range(Columns)
      /\ ParentExists )
    => /\ outcome = "ok"
       /\ "rows" \in DOMAIN file
       /\ Len(file.rows) = Len(call.stats) + 1
       /\ file.rows[1] = ExpectedHeader(Columns)
       /\ \A k \in DOMAIN call.stats :
            /\ file.rows[k + 1][1] =
                 [text |-> <<"(", call.stats[k].pair[1], ", ",
                             call.stats[k].pair[2], ")">>]
            /\ \A c \in 2..Len(Columns) :
                 file.rows[k + 1][c] = [value |-> call.stats[k][Columns[c]]]

\* two exact records, the first with pair (B, A), the second with (A, B),
\* written as three lines
C1_Witness ==
    /\ IsTabular
    /\ Len(call.stats) = 2
    /\ \A i \in DOMAIN call.stats : DOMAIN call.stats[i] = Range(Columns)
    /\ call.stats[1].pair = <<"B", "A">>
    /\ call.stats[2].pair = <<"A", "B">>
    /\ outcome = "ok"
    /\ Len(file.rows) = 3

\* C2: a tabular export whose records carry every fixed column, and possibly
\* more, succeeds and writes for each record its projection onto the fixed
\* columns.
C2_SupersetAccepted ==
    ( /\ IsTabular
      /\ \A i \in DOMAIN call.stats : Range(Columns) \subseteq DOMAIN call.stats[i]
      /\ ParentExists )
    => /\ outcome = "ok"
       /\ "rows" \in DOMAIN file
       /\ Len(file.rows) = Len(call.stats) + 1
       /\ \A k \in DOMAIN call.stats :
            file.rows[k + 1] = ExpectedLine(call.stats[k], Columns)

\* C3: a tabular export given a record that lacks a column of the fixed
\* header does not complete successfully.
C3_MissingColumnRejected ==
    ( /\ IsTabular
      /\ \E i \in DOMAIN call.stats :
            ~(Range(Columns) \subseteq DOMAIN call.stats[i]) )
    => outcome # "ok"

\* C10: a tabular export that fails on record k after it opened the
\* destination leaves there the header line followed by the lines of the
\* records before k, whatever the destination held before; the earlier
\* content is not restored and the partial file is not removed.
C10_TruncatedOnFailure ==
    (IsTabular /\ outcome = "ValueError")
    => LET ss == call.stats
           k == FirstRejected(ss, Columns)
       IN  /\ k \in DOMAIN ss
           /\ file = [rows |-> <<ExpectedHeader(Columns)>> \o
                          [j \in 1..(k - 1) |-> ExpectedLine(ss[j], Columns)]]

\* the second record is the rejected one: header and first line remain
C10_Witness ==
    /\ IsTabular
    /\ outcome = "ValueError"
    /\ Len(call.stats) >= 2
    /\ FirstRejected(call.stats, Columns) = 2
    /\ Len(file.rows) = 2

----------------------------------------------------------------------------
(* Detail exporters. *)

\* C6 as stated: after write_evidence_top, every input detail record has an
\* entry under the canonical key of its pair whose value is that record's
\* own hits list.
C6_EveryRecordKeyed ==
    (call.op = "write_evidence_top" /\ outcome = "ok")
    => \A i \in DOMAIN call.details :
          /\ ExpectedKey(call.details[i].pair) \in DOMAIN file.json
          /\ file.json[ExpectedKey(call.details[i].pair)] = call.details[i].hits

\* C6 as amended: the mapping has exactly the canonical keys of the input
\* pairs, (A, B) and (B, A) being distinct keys, and the value under a key is
\* the hits list of the last input record with that pair, hence a record's
\* own hits list when no later record repeats its pair.
C6_LastRecordKeyed ==
    (call.op = "write_evidence_top" /\ outcome = "ok")
    => LET dd == call.details
       IN  /\ DOMAIN file.json = {ExpectedKey(dd[i].pair) : i \in DOMAIN dd}
           /\ \A i \in DOMAIN dd :
                (\A j \in DOMAIN dd : j > i => dd[j].pair # dd[i].pair)
                => file.json[ExpectedKey(dd[i].pair)] = dd[i].hits
           /\ ExpectedKey(<<"A", "B">>) # ExpectedKey(<<"B", "A">>)

\* two records with the same pair and different hits: the key holds the
\* hits of the second
C6_Witness ==
    /\ call.op = "write_evidence_top"
    /\ outcome = "ok"
    /\ Len(call.details) = 2
    /\ call.details[1].pair = call.details[2].pair
    /\ call.details[1].hits # call.details[2].hits
    /\ file.json[ExpectedKey(call.details[1].pair)] = call.details[2].hits

\* C7: a detail or report export to a destination whose parent directory is
\* missing creates the directory and does not fail for that reason.
C7_ParentsCreated ==
    (IsDetail \/ IsReport)
    => (ParentExists /\ outcome # "FileNotFoundError")

----------------------------------------------------------------------------
(* Narrative report builder. *)

ScoreOf(item) == IF "score" \in DOMAIN item THEN item.score ELSE 0

\* C4: the report of a write_word_report call counts every stats record in
\* exactly one bucket: High iff score >= 0.7, Medium iff 0.5 <= score < 0.7,
\* Low iff score < 0.5, a missing score counting as 0.0.
C4_RiskPartition ==
    IsReport
    => /\ outcome = "ok"
       /\ "doc" \in DOMAIN file
       /\ LET ss == call.stats
              n(S) == Cardinality({i \in DOMAIN ss : ScoreOf(ss[i]) \in S})
          IN  /\ file.doc.risk.High = n(700000..1000000)
              /\ file.doc.risk.Medium = n(500000..699999)
              /\ file.doc.risk.Low = n(0..499999)
              /\ file.doc.risk.High + file.doc.risk.Medium
                    + file.doc.risk.Low = Len(ss)

\* C5: the report of a write_word_report call shows, for every detail
\* record, the first min(top_n_per_pair, len(hits)) hits in their order,
\* each with its adjusted_sim when present and its sim otherwise.
C5_TopHitsRendered ==
    IsReport
    => /\ outcome = "ok"
       /\ "doc" \in DOMAIN file
       /\ \A i \in DOMAIN call.details :
            LET hits == IF "hits" \in DOMAIN call.details[i]
                        THEN call.details[i].hits ELSE <<>>
                shown == file.doc.sections[i].hits
            IN  /\ Len(shown) = Min(call.top_n, Len(hits))
                /\ \A h \in DOMAIN shown :
                     shown[h].similarity =
                        IF "adjusted_sim" \in DOMAIN hits[h]
                        THEN (hits[h].adjusted_sim + 500) \div 1000
                        ELSE (hits[h].sim + 500) \div 1000

\* C8: a write_word_report call with well-formed stats and details reaches
\* the save step and persists the document.
C8_ReportPersisted ==
    ( /\ IsReport
      /\ \A i \in DOMAIN call.stats :
            DOMAIN call.stats[i] = Range(SUMMARY_HEADER)
      /\ \A i \in DOMAIN call.details :
            DOMAIN call.details[i] = {"pair", "count", "mean_sim", "score", "hits"} )
    => (outcome = "ok" /\ "doc" \in DOMAIN file)

----------------------------------------------------------------------------
(* Overwriting. *)

\* what a tabular or detail export leaves in a destination it opened
ExpectedContent(c) ==
    CASE c.op = "write_summary_csv" \/ c.op = "write_paragraph_summary" ->
            LET cols == IF c.op = "write_summary_csv"
                        THEN SUMMARY_HEADER ELSE PARA_SUMMARY_HEADER
                k == FirstRejected(c.stats, cols)
                n == IF k = 0 THEN Len(c.stats) ELSE k - 1
            IN  [rows |-> <<ExpectedHeader(cols)>> \o
                    [j \in 1..n |-> ExpectedLine(c.stats[j], cols)]]
      [] c.op = "write_pair_results" -> [json |-> [pairs |-> c.details]]
      [] c.op = "write_evidence_top" ->
            [json |->
                [key \in {ExpectedKey(c.details[i].pair) : i \in DOMAIN c.details} |->
                    LET i == CHOOSE i \in DOMAIN c.details :
                                /\ ExpectedKey(c.details[i].pair) = key
                                /\ \A j \in DOMAIN c.details :
                                     j > i => c.details[j].pair # c.details[i].pair
                    IN  c.details[i].hits]]

\* what the call leaves in a destination that held nothing before
FromScratch(c) ==
    IF c.op \in {"write_summary_csv", "write_paragraph_summary"}
    THEN IF \A i \in DOMAIN c.stats : "pair" \in DOMAIN c.stats[i]
         THEN ExpectedContent(c) ELSE NoFile
    ELSE IF c.op = "write_evidence_top"
    THEN IF \A i \in DOMAIN c.details :
               {"pair", "hits"} \subseteq DOMAIN c.details[i]
         THEN ExpectedContent(c) ELSE NoFile
    ELSE ExpectedContent(c)

\* C9 as stated: after a tabular or detail export (to a destination whose
\* directory exists) the content is a function of that call's arguments
\* alone: what the call leaves in an empty destination.
C9_LastCallDetermines ==
    ((IsTabular \/ IsDetail) /\ ParentExists) => file = FromScratch(call)

\* C9 as amended: a call that opened the destination (it succeeded, or it
\* failed while writing lines) leaves the content its own arguments
\* determine, whatever was there; a call that failed before opening it
\* leaves the content as it was.
C9_LastOpeningCallDetermines ==
    /\ [](outcome \in {"ok", "ValueError"} => file = ExpectedContent(call))
    /\ [][outcome' \notin {"ok", "ValueError"} => file' = file]_vars

\* a table export failed before opening a destination that holds the JSON
\* of an earlier detail export
C9_Witness ==
    /\ IsTabular
    /\ outcome = "KeyError"
    /\ "json" \in DOMAIN file

====
